---------------------------- MODULE Spec2Model ----------------------------
(* A model of slowflow's app.py: the pull-based text adapter                *)
(* StringIteratorIO, the date parser, the paginated record source, the      *)
(* loader strategies over the staging table and the profiling harness.      *)
(*                                                                          *)
(* Text is a sequence of characters.  An Optional[int] is a sequence of     *)
(* length 0 (None) or 1 (<<k>>).                                            *)
EXTENDS Integers, Sequences, FiniteSets, TLC

\* ------------------------------------------------------------------ bounds
MaxLines == 2
MaxLineLen == 2
MaxChunk == 2
MaxTextLen == 7
MaxPages == 3
MaxPageLen == 1
MaxBeers == 2
MaxFieldLen == 2
MaxBatch == 2

\* copy_string_iterator's default chunk size (size: int = 8192)
DefaultSize == 8192

\* ------------------------------------------------------------- state
VARIABLES
    \* StringIteratorIO
    lines,      \* the underlying sequence of lines the iterator was built over
    pos,        \* self._iter: how many lines next() has handed out
    buff,       \* self._buff
    pc,         \* position of the caller inside read / _read1
    n,          \* read's local n (Optional[int])
    line,       \* read's local list of chunks
    ret,        \* what the last completed read returned
    out,        \* every returned chunk so far, concatenated by the consumer
    allPos,     \* every read so far was called with n > 0
    call,       \* the arguments and the adapter state at the last call of read
    \* parse_first_brewed
    text,       \* the argument
    result,     \* what the call produced: a date or the exception raised
    \* iter_beers_from_api and the first statement of main
    server,     \* the pages the endpoint serves: page p holds server[p]
    page_size,  \* iter_beers_from_api's argument
    page,       \* the generator's page counter
    requests,   \* the requests issued so far, in order
    yielded,    \* the records the generator has yielded so far, in order
    fpc,        \* "fetching", "exhausted", "loaded" or "failed"
    beers,      \* main's list of records
    \* the loader strategies, the staging table and the profiling harness
    table,      \* staging_beers: its rows, each a tuple in column order
    strategy,   \* the loader of the current (or last) profiled call
    arg_beers,  \* its beers argument: a list of record ids
    arg_page,   \* its page_size argument
    prev_beers, \* the beers argument of the profiled call before it
    lpc,        \* "main", "create", "write" or "terminated"
    execs,      \* the executions of the loader in this profiled call
    drops,      \* the table recreations in this profiled call
    written,    \* the records written in this execution
    stmts,      \* the write statements completed in this execution
    retval,     \* what the profiled call returned to its caller
    raised,     \* the exception that reached the top level
    failed,     \* where the destination failed: "no", "create" or "write"
    \* the bulk-text format
    csv_batch,  \* the tuples to serialise: 17 Optional texts each
    csv_text,   \* the text handed to COPY
    cpc         \* "tuples" or "serialised"

ioVars == <<lines, pos, buff, pc, n, line, ret, out, allPos, call>>
dateVars == <<text, result>>
fetchVars == <<server, page_size, page, requests, yielded, fpc, beers>>

loadVars == <<table, strategy, arg_beers, arg_page, prev_beers, lpc, execs,
              drops, written, stmts, retval, raised, failed>>

csvVars == <<csv_batch, csv_text, cpc>>

vars == <<ioVars, dateVars, fetchVars, loadVars, csvVars>>

notIO == <<dateVars, fetchVars, loadVars, csvVars>>
notDate == <<ioVars, fetchVars, loadVars, csvVars>>
notFetch == <<ioVars, dateVars, loadVars, csvVars>>
notLoad == <<ioVars, dateVars, fetchVars, csvVars>>
notCsv == <<ioVars, dateVars, fetchVars, loadVars>>

\* ------------------------------------------------------- text helpers
None == <<>>
Some(k) == <<k>>

Min(a, b) == IF a <= b THEN a ELSE b
Max(a, b) == IF a >= b THEN a ELSE b

\* ''.join(chunks)
RECURSIVE Join(_)
Join(chunks) ==
    IF chunks = <<>> THEN <<>> ELSE Head(chunks) \o Join(Tail(chunks))

\* s[:k] for an Optional[int] k, as Python slices
SliceTo(s, k) ==
    IF k = None THEN s
    ELSE IF k[1] >= 0 THEN SubSeq(s, 1, Min(k[1], Len(s)))
    ELSE SubSeq(s, 1, Max(Len(s) + k[1], 0))

\* a slip: the buffer keeps s[k+1:], one character too few
SliceFromSkip(s, k) == SubSeq(s, k + 2, Len(s))

\* s[k:] for k in 0..
SliceFrom(s, k) == SubSeq(s, k + 1, Len(s))

\* ------------------------------------------------- parse_first_brewed
Digits == <<"0", "1", "2", "3", "4", "5", "6", "7", "8", "9">>

\* the characters date texts are drawn from: digits, the separator and a
\* character int() rejects
DateChars == {"0", "1", "2", "/", "x"}

DateTexts == UNION { [1..k -> DateChars] : k \in 0..MaxTextLen }

IsDigit(c) == \E d \in 1..10 : Digits[d] = c

DigitValue(c) == (CHOOSE d \in 1..10 : Digits[d] = c) - 1

\* text.split('/')
RECURSIVE SplitSlash(_, _, _)
SplitSlash(s, i, cur) ==
    IF i > Len(s) THEN <<cur>>
    ELSE IF s[i] = "/" THEN <<cur>> \o SplitSlash(s, i + 1, <<>>)
    ELSE SplitSlash(s, i + 1, Append(cur, s[i]))

Split(s) == SplitSlash(s, 1, <<>>)

\* int(s) succeeds
IntOk(s) == s # <<>> /\ \A i \in 1..Len(s) : IsDigit(s[i])

\* int(s), for a string of digits
RECURSIVE IntVal(_)
IntVal(s) ==
    IF s = <<>> THEN 0
    ELSE 10 * IntVal(SubSeq(s, 1, Len(s) - 1)) + DigitValue(s[Len(s)])

\* datetime.MINYEAR, datetime.MAXYEAR
MinYear == 1
MaxYear == 9999

Raised(kind) == [kind |-> kind, year |-> 0, month |-> 0, day |-> 0]

\* datetime.date(year, month, day) with day = 1
Date(year, month, day) ==
    IF year \in MinYear..MaxYear /\ month \in 1..12
    THEN [kind |-> "date", year |-> year, month |-> month, day |-> day]
    ELSE Raised("ValueError")

\* parse_first_brewed(text): the date returned or the exception raised
parse_first_brewed(t) ==
    LET parts == Split(t) IN
    IF Len(parts) = 2
    THEN IF IntOk(parts[2]) /\ IntOk(parts[1])
         THEN Date(IntVal(parts[2]), IntVal(parts[1]), 1)
         ELSE Raised("ValueError")
    ELSE IF Len(parts) = 1
    THEN IF IntOk(parts[1])
         THEN Date(IntVal(parts[1]), 1, 1)
         ELSE Raised("ValueError")
    ELSE Raised("AssertionError")

Pending == Raised("pending")

DateInit ==
    /\ text \in DateTexts
    /\ result = Pending

DateOff ==
    /\ text = <<>>
    /\ result = Raised("off")

\* a caller evaluates parse_first_brewed(text)
ParseCall ==
    /\ result = Pending
    /\ result' = parse_first_brewed(text)
    /\ UNCHANGED text
    /\ UNCHANGED notDate

DateNext == ParseCall

\* ------------------------------------------------- StringIteratorIO
\* The lines handed to the adapter: line i has LineLens[i] characters and the
\* characters of the whole text are numbered 1, 2, 3, ... so that a lost,
\* duplicated or reordered character shows in the output.
RECURSIVE Sum(_)
Sum(lens) == IF lens = <<>> THEN 0 ELSE Head(lens) + Sum(Tail(lens))

MakeLines(lens) ==
    [i \in 1..Len(lens) |->
        [j \in 1..lens[i] |-> Sum(SubSeq(lens, 1, i - 1)) + j]]

LineInputs ==
    UNION { { MakeLines(lens) : lens \in [1..k -> 0..MaxLineLen] } : k \in 0..MaxLines }

ReadSizes ==
    {None} \cup { Some(k) : k \in (-MaxChunk..MaxChunk) \cup {7, DefaultSize} }

\* materialising the whole sequence eagerly
Text == Join(lines)

\* __init__
IOInit ==
    /\ lines \in LineInputs
    /\ pos = 0
    /\ buff = <<>>
    /\ pc = "idle"
    /\ n = None
    /\ line = <<>>
    /\ ret = <<>>
    /\ out = <<>>
    /\ allPos = TRUE
    /\ call = [n |-> None, rem |-> 0, pos |-> 0, buff |-> <<>>, made |-> FALSE]

\* no adapter in use
IOOff ==
    /\ lines = <<>>
    /\ pos = 0
    /\ buff = <<>>
    /\ pc = "off"
    /\ n = None
    /\ line = <<>>
    /\ ret = <<>>
    /\ out = <<>>
    /\ allPos = TRUE
    /\ call = [n |-> None, rem |-> 0, pos |-> 0, buff |-> <<>>, made |-> FALSE]

\* a consumer calls read(k)
ReadCall(k) ==
    /\ pc = "idle"
    /\ pc' = "loop"
    /\ n' = k
    /\ line' = <<>>
    /\ allPos' = (allPos /\ k # None /\ k[1] > 0)
    /\ call' = [n |-> k, rem |-> Len(Text) - Len(out), pos |-> pos,
                buff |-> buff, made |-> TRUE]
    /\ UNCHANGED <<lines, pos, buff, ret, out>>
    /\ UNCHANGED notIO

\* read: the test of its while loop
ReadLoopTest(k) == k = None \/ k[1] < 0 \/ k[1] > 0

ReadLoop ==
    /\ pc = "loop"
    /\ pc' = IF ReadLoopTest(n) THEN "read1" ELSE "ret"
    /\ UNCHANGED <<lines, pos, buff, n, line, ret, out, allPos, call>>
    /\ UNCHANGED notIO

\* a slip: _read1 pulls a line whatever the buffer holds
Read1AlwaysNeedsLine(b) == TRUE

\* _read1: `while not self._buff` is entered
Read1NeedsLine(b) == b = <<>>

\* _read1: self._buff = next(self._iter)
Read1Next ==
    /\ pc = "read1"
    /\ Read1NeedsLine(buff)
    /\ pos < Len(lines)
    /\ buff' = lines[pos + 1]
    /\ pos' = pos + 1
    /\ UNCHANGED <<lines, pc, n, line, ret, out, allPos, call>>
    /\ UNCHANGED notIO

\* a slip: _read1 returns the whole buffer, ignoring n
Read1RetAll(b, k) == b

\* _read1: ret = self._buff[:n]
Read1Ret(b, k) == SliceTo(b, k)

\* _read1 leaves its loop (non-empty buffer, or StopIteration), slices the
\* buffer and returns m; read then breaks on an empty m or appends it
Read1Slice ==
    /\ pc = "read1"
    /\ (~Read1NeedsLine(buff) \/ pos = Len(lines))
    /\ LET m == Read1Ret(buff, n) IN
        /\ buff' = SliceFrom(buff, Len(m))
        /\ IF m = <<>>
           THEN /\ pc' = "ret"
                /\ UNCHANGED <<n, line>>
           ELSE /\ pc' = "loop"
                /\ n' = IF n = None \/ n[1] < 0 THEN n ELSE Some(n[1] - Len(m))
                /\ line' = Append(line, m)
    /\ UNCHANGED <<lines, pos, ret, out, allPos, call>>
    /\ UNCHANGED notIO

\* read: return ''.join(line)
ReadReturn ==
    /\ pc = "ret"
    /\ pc' = "idle"
    /\ ret' = Join(line)
    /\ out' = out \o Join(line)
    /\ UNCHANGED <<lines, pos, buff, n, line, allPos, call>>
    /\ UNCHANGED notIO

IONext ==
    \/ \E k \in ReadSizes : ReadCall(k)
    \/ ReadLoop
    \/ Read1Next
    \/ Read1Slice
    \/ ReadReturn

\* ------------------------------------------------- iter_beers_from_api
\* raw records are told apart by their id
RecordIds == {1, 2}

\* iter_beers_from_api's default page size (page_size: int = 5)
DefaultPageSize == 5

\* main builds list(...) * 100
Replication == 100

Pages == UNION { [1..k -> RecordIds] : k \in 0..MaxPageLen }

Servers == UNION { [1..k -> Pages] : k \in 0..MaxPages }

\* response.json() for a page: past the last page the endpoint serves []
PageData(p) == IF p <= Len(server) THEN server[p] ELSE <<>>

\* lst * k
RECURSIVE Repeat(_, _)
Repeat(lst, k) == IF k <= 0 THEN <<>> ELSE lst \o Repeat(lst, k - 1)

FetchInit ==
    /\ server \in Servers
    /\ page_size \in {1, DefaultPageSize}
    /\ page = 1
    /\ requests = <<>>
    /\ yielded = <<>>
    /\ fpc = "fetching"
    /\ beers = <<>>

FetchOff ==
    /\ server = <<>>
    /\ page_size = DefaultPageSize
    /\ page = 1
    /\ requests = <<>>
    /\ yielded = <<>>
    /\ fpc = "off"
    /\ beers = <<>>

\* a slip: an empty page does not end the loop
NeverBreaks(data) == FALSE

\* `if not data: break`
Breaks(data) == data = <<>>

\* session.get(...) answers with a success status: the page is yielded, or
\* the loop ends on an empty one
FetchPage ==
    /\ fpc = "fetching"
    /\ requests' = Append(requests, [page |-> page, per_page |-> page_size])
    /\ LET data == PageData(page) IN
        IF Breaks(data)
        THEN /\ fpc' = "exhausted"
             /\ UNCHANGED <<yielded, page>>
        ELSE /\ yielded' = yielded \o data
             /\ page' = page + 1
             /\ fpc' = fpc
    /\ UNCHANGED <<server, page_size, beers>>
    /\ UNCHANGED notFetch

\* session.get(...) answers with an error status: raise_for_status raises
FetchFails ==
    /\ fpc = "fetching"
    /\ requests' = Append(requests, [page |-> page, per_page |-> page_size])
    /\ fpc' = "failed"
    /\ UNCHANGED <<server, page_size, page, yielded, beers>>
    /\ UNCHANGED notFetch

\* main: beers = list(iter_beers_from_api()) * 100, once list() has drained
\* the generator
Replicate ==
    /\ fpc = "exhausted"
    /\ beers' = Repeat(yielded, Replication)
    /\ fpc' = "loaded"
    /\ UNCHANGED <<server, page_size, page, requests, yielded>>
    /\ UNCHANGED notFetch

FetchNext ==
    \/ FetchPage
    \/ FetchFails
    \/ Replicate

\* ------------------------------------- loaders, table and harness
\* CREATE_TABLE: the columns of staging_beers, in order
Columns ==
    <<"id", "name", "tagline", "first_brewed", "description", "image_url",
      "abv", "ibu", "target_fg", "target_ob", "ebc", "srm", "ph",
      "attenuation_level", "brewers_tips", "contributed_by", "volume">>

\* the placeholders of the INSERT statements of the mapping-based loaders
\* and the tuples of the execute_values loaders and of copy_string_iterator
NamedOrder ==
    <<"id", "name", "tagline", "first_brewed", "description", "image_url",
      "abv", "ibu", "target_fg", "target_og", "ebc", "srm", "ph",
      "attenuation_level", "brewers_tips", "contributed_by", "volume">>

\* the tuple copy_stringio joins
CopyStringioOrder ==
    <<"id", "name", "tagline", "first_brewed", "description", "image_url",
      "abv", "ibu", "target_fg", "target_og", "ebc", "srm", "ph",
      "attenuation_level", "contributed_by", "brewers_tips", "volume">>

\* the loaders; insert_execute_values_iterator is defined twice in the file
MappingBased ==
    {"insert_one_by_one", "insert_executemany", "insert_executemany_iterator",
     "insert_execute_batch", "insert_execute_batch_iterator"}

TupleBased ==
    {"insert_execute_values", "insert_execute_values_iterator_first",
     "insert_execute_values_iterator", "copy_stringio", "copy_string_iterator"}

Strategies == MappingBased \cup TupleBased

\* the fields a loader emits per record, in the order it emits them
EmitOrder(s) == IF s = "copy_stringio" THEN CopyStringioOrder ELSE NamedOrder

\* The value of a field of a record is the pair <<record, field>>: for
\* first_brewed it stands for parse_first_brewed(beer['first_brewed']), for
\* volume for beer['volume']['value'].  The text form of the values is the
\* subject of the bulk-text format below.
Emit(s, r) == [i \in 1..Len(EmitOrder(s)) |-> <<r, EmitOrder(s)[i]>>]

\* the lists a loader is given
BeerLists == UNION { [1..k -> RecordIds] : k \in 0..MaxBeers }

\* page_size: the default of the paged loaders (and of execute_batch and
\* execute_values), and a page smaller than the lists
DefaultPage == 100
PageArgs == {1, DefaultPage}

\* How many records one statement sent to the destination carries: one
\* execute per record, one statement per page, or one COPY for the list.
IsCopy(s) == s \in {"copy_stringio", "copy_string_iterator"}

UnitSize(s, ps) ==
    IF s \in {"insert_one_by_one", "insert_executemany",
              "insert_executemany_iterator"} THEN 1
    ELSE IF s \in {"insert_execute_batch", "insert_execute_values",
                   "insert_execute_values_iterator_first"} THEN DefaultPage
    ELSE ps

\* the exception the driver raises on a failed statement
TransportError == [kind |-> "psycopg2.Error", cause |-> "none"]
NoError == [kind |-> "none", cause |-> "none"]

\* a slip: the failure is swallowed and the run carries on
Swallowed(e) == NoError

\* the loaders and profile's inner have no except clause: what the driver
\* raised is what leaves the profiled call
Propagated(e) == e

\* a slip: the table is not dropped before it is created
create_staging_table_keep(t) == t

\* create_staging_table: DROP TABLE IF EXISTS ...; CREATE UNLOGGED TABLE ...
create_staging_table(t) == <<>>

\* a slip: the harness measures time only
ProfilePassesTimeOnly == <<"time">>

\* profile's inner: the two executions of fn, in order
ProfilePasses == <<"time", "memory">>

\* every loader returns None
LoaderReturn == "None"

Exec(p) ==
    [pass |-> p, beers |-> arg_beers, page |-> arg_page,
     done |-> FALSE, ret |-> "pending"]

LoadInit ==
    /\ table = <<>>
    /\ strategy = "none"
    /\ arg_beers = <<>>
    /\ arg_page = DefaultPage
    /\ prev_beers = <<>>
    /\ lpc = "main"
    /\ execs = <<>>
    /\ drops = 0
    /\ written = 0
    /\ stmts = 0
    /\ retval = "pending"
    /\ raised = NoError
    /\ failed = "no"

LoadOff ==
    /\ table = <<>>
    /\ strategy = "none"
    /\ arg_beers = <<>>
    /\ arg_page = DefaultPage
    /\ prev_beers = <<>>
    /\ lpc = "off"
    /\ execs = <<>>
    /\ drops = 0
    /\ written = 0
    /\ stmts = 0
    /\ retval = "pending"
    /\ raised = NoError
    /\ failed = "no"

\* a profiled loader is called: inner starts the time-measurement execution
Invoke(s, bs, ps) ==
    /\ lpc = "main"
    /\ strategy' = s
    /\ arg_beers' = bs
    /\ arg_page' = ps
    /\ prev_beers' = arg_beers
    /\ execs' = <<[pass |-> ProfilePasses[1], beers |-> bs, page |-> ps,
                   done |-> FALSE, ret |-> "pending"]>>
    /\ drops' = 0
    /\ written' = 0
    /\ stmts' = 0
    /\ retval' = "pending"
    /\ lpc' = "create"
    /\ UNCHANGED <<table, raised, failed>>
    /\ UNCHANGED notLoad

\* the loader's first statement: create_staging_table(cursor)
CreateTable ==
    /\ lpc = "create"
    /\ table' = create_staging_table(table)
    /\ drops' = drops + 1
    /\ lpc' = "write"
    /\ UNCHANGED <<strategy, arg_beers, arg_page, prev_beers, execs, written,
                   stmts, retval, raised, failed>>
    /\ UNCHANGED notLoad

\* the loader has sent everything
WriteComplete ==
    IF IsCopy(strategy) THEN stmts = 1 ELSE written = Len(arg_beers)

\* the records the next statement carries
NextUnit ==
    IF IsCopy(strategy) THEN Len(arg_beers)
    ELSE Min(UnitSize(strategy, arg_page), Len(arg_beers) - written)

\* one statement (an INSERT of a record or of a page, or the COPY) succeeds
WriteUnit ==
    /\ lpc = "write"
    /\ ~WriteComplete
    /\ table' = table \o
            [i \in 1..NextUnit |-> Emit(strategy, arg_beers[written + i])]
    /\ written' = written + NextUnit
    /\ stmts' = stmts + 1
    /\ UNCHANGED <<strategy, arg_beers, arg_page, prev_beers, lpc, execs,
                   drops, retval, raised, failed>>
    /\ UNCHANGED notLoad

\* the destination fails on the statement about to run: the exception leaves
\* the loader, inner and main, and the process ends
WriteFails ==
    /\ \/ lpc = "create"
       \/ lpc = "write" /\ ~WriteComplete
    /\ failed' = lpc
    /\ raised' = Propagated(TransportError)
    /\ lpc' = IF Propagated(TransportError) = NoError THEN lpc ELSE "terminated"
    /\ UNCHANGED <<table, strategy, arg_beers, arg_page, prev_beers, execs,
                   drops, written, stmts, retval>>
    /\ UNCHANGED notLoad

\* execs with its last execution returned
Returned == [execs EXCEPT ![Len(execs)].done = TRUE,
                          ![Len(execs)].ret = LoaderReturn]

\* the time-measurement execution returns: inner starts the memory one
NextPass ==
    /\ lpc = "write"
    /\ WriteComplete
    /\ Len(execs) < Len(ProfilePasses)
    /\ execs' = Append(Returned, Exec(ProfilePasses[Len(execs) + 1]))
    /\ written' = 0
    /\ stmts' = 0
    /\ lpc' = "create"
    /\ UNCHANGED <<table, strategy, arg_beers, arg_page, prev_beers, drops,
                   retval, raised, failed>>
    /\ UNCHANGED notLoad

\* the last execution returns: inner returns its retval
ProfileReturn ==
    /\ lpc = "write"
    /\ WriteComplete
    /\ Len(execs) = Len(ProfilePasses)
    /\ execs' = Returned
    /\ retval' = Returned[Len(execs)].ret
    /\ lpc' = "main"
    /\ UNCHANGED <<table, strategy, arg_beers, arg_page, prev_beers, drops,
                   written, stmts, raised, failed>>
    /\ UNCHANGED notLoad

LoadNext ==
    \/ \E s \in Strategies, bs \in BeerLists, ps \in PageArgs : Invoke(s, bs, ps)
    \/ CreateTable
    \/ WriteUnit
    \/ WriteFails
    \/ NextPass
    \/ ProfileReturn

\* ------------------------------------------------- the bulk-text format
NL == "\n"
BS == "\\"
Bar == "|"

\* the characters field texts are drawn from
CsvChars == {"a", NL, Bar, BS, "N", "n"}

CsvTexts == UNION { [1..k -> CsvChars] : k \in 0..MaxFieldLen }

\* a field of a tuple: None or a text (a number or a date stands as its str())
CsvValues == {None} \cup { Some(t) : t \in CsvTexts }

\* The tuples serialised: name ranges over all values, brewers_tips over None
\* and one text, id tells the records apart and the other fields are fixed.
CsvTuple(id, name, tips) ==
    [i \in 1..Len(NamedOrder) |->
        IF NamedOrder[i] = "id" THEN Some(<<Digits[id + 1]>>)
        ELSE IF NamedOrder[i] = "name" THEN name
        ELSE IF NamedOrder[i] = "brewers_tips" THEN tips
        ELSE IF NamedOrder[i] = "image_url" THEN None
        ELSE Some(<<"a">>)]

CsvTuples ==
    { CsvTuple(1, name, tips) :
        name \in CsvValues, tips \in {None, Some(<<"a", NL>>)} }

CsvBatches == UNION { [1..k -> CsvTuples] : k \in 0..MaxBatch }

\* str.replace('\n', '\\n')
RECURSIVE EscapeNewlines(_)
EscapeNewlines(t) ==
    IF t = <<>> THEN <<>>
    ELSE (IF Head(t) = NL THEN <<BS, "n">> ELSE <<Head(t)>>)
            \o EscapeNewlines(Tail(t))

\* clean_csv_value
clean_csv_value(value) ==
    IF value = None THEN <<BS, "N">> ELSE EscapeNewlines(value[1])

\* '|'.join(fields)
RECURSIVE JoinBar(_)
JoinBar(fields) ==
    IF fields = <<>> THEN <<>>
    ELSE IF Len(fields) = 1 THEN fields[1]
    ELSE fields[1] \o <<Bar>> \o JoinBar(Tail(fields))

\* one line of the text: '|'.join(map(clean_csv_value, tuple)) + '\n'
CsvLine(tuple) ==
    JoinBar([i \in 1..Len(tuple) |-> clean_csv_value(tuple[i])]) \o <<NL>>

CsvInit ==
    /\ csv_batch \in CsvBatches
    /\ csv_text = <<>>
    /\ cpc = "tuples"

CsvOff ==
    /\ csv_batch = <<>>
    /\ csv_text = <<>>
    /\ cpc = "off"

\* the loader writes (or the adapter hands over) the line of every tuple
Serialise ==
    /\ cpc = "tuples"
    /\ csv_text' = Join([i \in 1..Len(csv_batch) |-> CsvLine(csv_batch[i])])
    /\ cpc' = "serialised"
    /\ UNCHANGED csv_batch
    /\ UNCHANGED notCsv

CsvNext == Serialise

\* ------------------------------------------------------ specifications
\* Each specification runs one part of the program; the parts not run are off.
InitRead == IOInit /\ DateOff /\ FetchOff /\ LoadOff /\ CsvOff
InitDate == DateInit /\ IOOff /\ FetchOff /\ LoadOff /\ CsvOff
InitFetch == FetchInit /\ IOOff /\ DateOff /\ LoadOff /\ CsvOff
InitLoad == LoadInit /\ IOOff /\ DateOff /\ FetchOff /\ CsvOff
InitCsv == CsvInit /\ IOOff /\ DateOff /\ FetchOff /\ LoadOff

\* the adapter under arbitrary reads
SpecRead == InitRead /\ [][IONext]_vars

\* read runs to its return once called: the caller is single-threaded and
\* keeps executing the method it is in
FairRead == SpecRead /\ WF_vars(ReadLoop \/ Read1Next \/ Read1Slice \/ ReadReturn)

\* the date parser applied to a text
SpecDate == InitDate /\ [][DateNext]_vars

\* the record source drained by main
SpecFetch == InitFetch /\ [][FetchNext]_vars

\* profiled loaders called one after the other on in-memory lists
SpecLoad == InitLoad /\ [][LoadNext]_vars

\* a batch of tuples serialised to the bulk-text format
SpecCsv == InitCsv /\ [][CsvNext]_vars

\* ------------------------------------------------ claims: the adapter
IsPrefix(s, t) == Len(s) <= Len(t) /\ SubSeq(t, 1, Len(s)) = s

IsPosInt(k) == k # None /\ k[1] > 0

\* the lines the iterator has not handed out yet
RestLines == SubSeq(lines, pos + 1, Len(lines))

\* the chunks read has collected and not yet returned
InHand == IF pc = "idle" THEN <<>> ELSE Join(line)

\* C1: with positive chunk sizes only, the chunks returned so far concatenate
\* to a prefix of the eagerly materialised text, and once a read has returned
\* the empty string they concatenate to exactly that text.
C1_ChunksReassemble ==
    (allPos /\ pc = "idle") =>
        /\ IsPrefix(out, Text)
        /\ (call.made /\ ret = <<>>) => out = Text

\* C1 witness: a three-character text over two lines was read in chunks of
\* two up to the empty read, the last non-empty chunk being a partial one.
C1_Witness ==
    /\ allPos /\ pc = "idle" /\ call.made
    /\ Len(lines) = 2 /\ Len(Text) = 3
    /\ call.n = Some(2) /\ call.rem = 0
    /\ ret = <<>> /\ out = Text

\* what C4 says of a completed read
C4_Result ==
    (pc = "idle" /\ call.made) =>
        /\ IsPosInt(call.n) =>
            /\ Len(ret) = Min(call.n[1], call.rem)
            /\ Len(ret) < call.n[1] => (pos = Len(lines) /\ buff = <<>>)
        /\ call.rem = 0 => ret = <<>>

\* C4: every read(n), n positive, zero, negative or None, returns; for n > 0
\* it returns exactly min(n, R) characters, R being the characters not yet
\* returned, so a short or empty result means the underlying sequence is
\* exhausted; and a read called with nothing left returns the empty string.
C4_ReadTerminates ==
    /\ [](C4_Result)
    /\ (pc # "idle") ~> (pc = "idle")

\* C4 witness: read(2) with one character left returned that one character.
C4_Witness ==
    /\ pc = "idle" /\ call.made
    /\ call.n = Some(2) /\ call.rem = 1 /\ Len(ret) = 1
    /\ pos = Len(lines) /\ buff = <<>>

\* C10: next() on the underlying iterator happens only with an empty buffer;
\* what was returned, the chunks in hand, the buffer and the lines not yet
\* pulled are, in this order, the whole text (buffered characters come before
\* any character of a later line); and a read(n) with 0 < n <= len(buffer)
\* pulls nothing.
C10_PullOnlyWhenEmpty ==
    /\ [][pos' # pos => buff = <<>>]_vars
    /\ [](out \o InHand \o buff \o Join(RestLines) = Text)
    /\ []((call.made /\ IsPosInt(call.n) /\ call.n[1] <= Len(call.buff))
            => pos = call.pos)

\* C10 witness: a read(1) found a character left over in the buffer, returned
\* it and pulled nothing.
C10_Witness ==
    /\ pc = "idle" /\ call.made
    /\ call.n = Some(1) /\ Len(call.buff) = 1
    /\ ret = call.buff /\ pos = call.pos /\ pos < Len(lines)


\* ---------------------------------------------- claims: the date parser
IsDigits(s) == \A i \in 1..Len(s) : IsDigit(s[i])

\* MM/YYYY naming a calendar month of a calendar year
ShapeMonthYear(t) ==
    /\ Len(t) = 7 /\ t[3] = "/"
    /\ IsDigits(SubSeq(t, 1, 2)) /\ IsDigits(SubSeq(t, 4, 7))
    /\ IntVal(SubSeq(t, 1, 2)) \in 1..12
    /\ IntVal(SubSeq(t, 4, 7)) \in MinYear..MaxYear

\* YYYY naming a calendar year
ShapeYear(t) ==
    /\ Len(t) = 4 /\ IsDigits(t)
    /\ IntVal(t) \in MinYear..MaxYear

\* C5: MM/YYYY parses to date(YYYY, MM, 1), YYYY to date(YYYY, 1, 1), and a
\* text of any other shape makes the call fail (raise) and return no date.
C5_ParseFirstBrewed ==
    result # Pending =>
        /\ ShapeMonthYear(text) =>
            result = [kind |-> "date", year |-> IntVal(SubSeq(text, 4, 7)),
                      month |-> IntVal(SubSeq(text, 1, 2)), day |-> 1]
        /\ ShapeYear(text) =>
            result = [kind |-> "date", year |-> IntVal(text), month |-> 1,
                      day |-> 1]
        /\ (~ShapeMonthYear(text) /\ ~ShapeYear(text)) => result.kind # "date"


\* -------------------------------------------- claims: the record source
\* the first page the endpoint serves empty
FirstEmpty ==
    CHOOSE p \in 1..(Len(server) + 1) :
        /\ PageData(p) = <<>>
        /\ \A q \in 1..(p - 1) : PageData(q) # <<>>

\* the records of pages 1..k in page order
RECURSIVE PagesUpTo(_)
PagesUpTo(k) == IF k = 0 THEN <<>> ELSE PagesUpTo(k - 1) \o PageData(k)

\* C8: the requests are for pages 1, 2, 3, ... with the given per_page; the
\* records yielded are those of the non-empty pages fetched, in page order and
\* with duplicates kept; no page after the first empty one is requested; and
\* main's list is filled only once the source is exhausted, with the yielded
\* records replicated.
C8_Pagination ==
    /\ \A i \in 1..Len(requests) :
            requests[i] = [page |-> i, per_page |-> page_size]
    /\ Len(requests) <= FirstEmpty
    /\ yielded = PagesUpTo(page - 1)
    /\ fpc = "fetching" => (page = Len(requests) + 1 /\ beers = <<>>)
    /\ fpc \in {"exhausted", "loaded"} =>
            /\ Len(requests) = FirstEmpty
            /\ yielded = PagesUpTo(FirstEmpty - 1)
    /\ fpc = "exhausted" => beers = <<>>
    /\ fpc = "loaded" => beers = Repeat(yielded, Replication)

\* C8 witness: two pages holding the same record were fetched, the third
\* request found the first empty page, and the list was replicated.
C8_Witness ==
    /\ fpc = "loaded"
    /\ Len(server) = 3 /\ server[1] = server[2] /\ server[1] # <<>>
    /\ server[3] = <<>>
    /\ Len(requests) = 3
    /\ Len(beers) = 2 * Replication


\* ------------------------------------- claims: loaders, table, harness
\* the record field a column of staging_beers is meant to hold
FieldOfColumn(c) == IF c = "target_ob" THEN "target_og" ELSE c

\* the rows of the table are those of the current strategy
TableOfStrategy ==
    \/ lpc = "write"
    \/ lpc = "main" /\ strategy # "none"
    \/ lpc = "terminated" /\ failed = "write"

\* C2: every row a tuple-based loader writes has 17 values, the value at
\* each position being the record's field of the column at that position.
C2_TupleOrderMatchesColumns ==
    (strategy \in TupleBased /\ TableOfStrategy) =>
        \A i \in 1..Len(table) :
            /\ Len(table[i]) = Len(Columns)
            /\ \A c \in 1..Len(Columns) :
                    table[i][c][2] = FieldOfColumn(Columns[c])

\* an execution of the loader has written its whole input, or the call is over
RunComplete ==
    \/ lpc = "write" /\ WriteComplete
    \/ lpc = "main" /\ strategy # "none"

\* C6: while a loader writes, the table holds exactly the rows this execution
\* wrote (it was recreated first); after each pass and after the call it
\* holds one row per record of the call's list, in order, and nothing else.
C6_TableHoldsLastRun ==
    /\ lpc = "write" => (drops = Len(execs) /\ Len(table) = written)
    /\ RunComplete =>
        /\ Len(table) = Len(arg_beers)
        /\ \A i \in 1..Len(table) : table[i][1] = <<arg_beers[i], "id">>

\* C6 witness: a call over a one-record list has returned after a call over
\* a two-record list, and the table holds one row.
C6_Witness ==
    /\ lpc = "main" /\ strategy # "none"
    /\ prev_beers = <<1, 2>> /\ arg_beers = <<2>>
    /\ Len(table) = 1 /\ table[1][1] = <<2, "id">>

\* C7: a profiled call that has returned ran the loader exactly twice with the
\* arguments of the call, the time pass then the memory pass, recreating the
\* table twice, and returned the loader's return value; at no time is an
\* execution started before the one before it has returned.
C7_TwoSequentialPasses ==
    /\ \A i \in 1..(Len(execs) - 1) : execs[i].done
    /\ (lpc = "main" /\ strategy # "none") =>
        /\ Len(execs) = 2
        /\ execs[1].pass = "time" /\ execs[2].pass = "memory"
        /\ \A i \in 1..2 :
            /\ execs[i].done
            /\ execs[i].beers = arg_beers /\ execs[i].page = arg_page
        /\ drops = 2
        /\ retval = LoaderReturn

\* C7 witness: a profiled call over a non-empty list has returned.
C7_Witness ==
    /\ lpc = "main" /\ strategy = "insert_one_by_one"
    /\ Len(arg_beers) = 2 /\ Len(execs) = 2 /\ drops = 2
    /\ retval = LoaderReturn

C9_AfterFailure ==
    failed # "no" =>
        /\ raised = TransportError
        /\ lpc = "terminated"
        /\ ~execs[Len(execs)].done
        /\ retval = "pending"
        /\ failed = "write" => (Len(table) = written /\ written <= Len(arg_beers))

RECURSIVE SplitOn(_, _, _, _)
SplitOn(t, sep, i, cur) ==
    IF i > Len(t) THEN <<cur>>
    ELSE IF t[i] = sep THEN <<cur>> \o SplitOn(t, sep, i + 1, <<>>)
    ELSE SplitOn(t, sep, i + 1, Append(cur, t[i]))

TextLines(t) ==
    LET pieces == SplitOn(t, NL, 1, <<>>) IN SubSeq(pieces, 1, Len(pieces) - 1)

\* the two-character \n back to a newline
RECURSIVE UnescapeNewlines(_)
UnescapeNewlines(t) ==
    IF t = <<>> THEN <<>>
    ELSE IF Len(t) >= 2 /\ t[1] = BS /\ t[2] = "n"
    THEN <<NL>> \o UnescapeNewlines(SubSeq(t, 3, Len(t)))
    ELSE <<Head(t)>> \o UnescapeNewlines(Tail(t))

ParseField(f) == IF f = <<BS, "N">> THEN None ELSE Some(UnescapeNewlines(f))

ParseLine(l) ==
    LET fs == SplitOn(l, Bar, 1, <<>>) IN [i \in 1..Len(fs) |-> ParseField(fs[i])]

ParseText(t) ==
    LET ls == TextLines(t) IN [i \in 1..Len(ls) |-> ParseLine(ls[i])]

\* C3: parsing the serialised text back gives the batch: one line per tuple,
\* 17 fields per line, every field the value it was.
C3_RoundTrip ==
    cpc = "serialised" => ParseText(csv_text) = csv_batch

=============================================================================
